---- MODULE Spec2Model ----
(***************************************************************************)
(* Model of the Comparsa / Nosa Terra browser client: the session manager  *)
(* (App.js, Login.js) and the views that keep a local copy of a server     *)
(* list (Feed, Post, Announcements, Events).  Every network call is        *)
(* asynchronous: a handler sends a request and keeps the values of the     *)
(* render it was called in (its closure); the server handles the request;  *)
(* the handler's continuation runs when the response is delivered.         *)
(***************************************************************************)
EXTENDS Integers, Sequences, FiniteSets, TLC

(***************************************************************************)
(* Bounds of the model.                                                    *)
(***************************************************************************)
\* tokens the server issues
MaxTokens == 2
\* requests the session manager and the views under it send
MaxReqs == 4
\* requests a view sends on user actions (the fetches of its mount are not counted)
MaxViewReqs == 2
\* length of a text typed into a form field
MaxLen == 1
\* events the server returns to the sidebar of the feed
MaxEvents == 6
\* requests a post card sends on user actions
MaxCardReqs == 3
\* requests the calendar of events sends on user actions
MaxEventReqs == 3
MaxAdminReqs == 2

VARIABLES
  \* session manager (App.js, Login.js)
  token,        \* localStorage 'token': NoToken or a token
  user,         \* App state `user`: Null or a user record
  loading,      \* App state `loading`
  loginLoading, \* Login state `loading` (submit button disabled)
  validTokens,  \* server: the tokens it accepts
  issued,       \* server: number of tokens issued so far
  net,          \* session requests in flight of the current page
  nreq,         \* number of requests sent so far
  \* observation
  lastOp,       \* the handler or continuation that ran last
  lastReq,      \* the session request whose response was delivered last
  \* the views
  view,         \* the component the user is working with
  feed,         \* state of Feed
  ann,          \* state of Announcements
  evs,          \* state of Events
  card,         \* state of one Post card of the feed
  adm,          \* state of AdminPanel
  prof,         \* state of Profile
  srv           \* server: its lists and id counters

sessVars == <<token, user, loading, loginLoading, validTokens, issued, net>>
viewVars == <<view, feed, ann, evs, card, adm, prof, srv>>
vars == <<sessVars, nreq, lastOp, lastReq, viewVars>>

NoData == [nodata |-> TRUE]
NoReq == [rid |-> 0]

(***************************************************************************)
(* Session manager: App.js, Login.js                                       *)
(***************************************************************************)
Users == {"ana", "xan"}
NoToken == <<>>
Null == [id |-> "null"]
NoAuth == <<"anonymous">>

\* A token is the pair of the user it was issued to and a serial number.
Tokens == Users \X (1..MaxTokens)
TokenUser(t) == t[1]

\* The accounts the server holds when the application is opened; "uxia" is a
\* member who does not use this browser.
InitialUsers ==
  << [id |-> "ana", role |-> "admin", name |-> <<>>],
     [id |-> "xan", role |-> "member", name |-> <<>>],
     [id |-> "uxia", role |-> "member", name |-> <<>>] >>

\* The record of user u in a list of user records.
UserRow(users, u) == users[CHOOSE i \in 1..Len(users) : users[i].id = u]

\* The user record the server returns for a user id.
ServerUser(u) == UserRow(srv.users, u)

\* Mutant of interceptor: the header is never attached.
interceptor_Never(stored) == NoAuth

\* The Authorization header the request interceptor of `api` attaches.
interceptor(stored) == IF stored # NoToken THEN stored ELSE NoAuth

Request(kind, auth) ==
  [rid |-> nreq + 1, kind |-> kind, auth |-> auth, sentWith |-> token, data |-> NoData]

\* Mutant of startupEffect: App does not show the loading screen while the
\* identity is resolved.
startupEffect_NotLoading ==
  /\ user' = Null
  /\ loginLoading' = FALSE
  /\ IF token # NoToken
       THEN /\ nreq < MaxReqs
            /\ net' = {Request("me", interceptor(token))}
            /\ nreq' = nreq + 1
       ELSE /\ net' = {}
            /\ nreq' = nreq
  /\ loading' = FALSE
  /\ UNCHANGED <<token, validTokens, issued, lastReq, viewVars>>

\* The startup effect of App: runs once after each (re)load of the page.
startupEffect ==
  /\ user' = Null
  /\ loginLoading' = FALSE
  /\ IF token # NoToken
       THEN /\ nreq < MaxReqs
            /\ net' = {Request("me", interceptor(token))}
            /\ nreq' = nreq + 1
            /\ loading' = TRUE
       ELSE /\ net' = {}
            /\ nreq' = nreq
            /\ loading' = FALSE
  /\ UNCHANGED <<token, validTokens, issued, lastReq, viewVars>>

\* A page load: the previous page's pending continuations are gone.
Reload ==
  /\ startupEffect
  /\ lastOp' = "startup"

\* GET /auth/me succeeded: .then(res => setUser(res.data)).finally(setLoading(false))
MeOk ==
  \E r \in net :
    /\ r.kind = "me"
    /\ r.auth \in validTokens
    /\ user' = ServerUser(TokenUser(r.auth))
    /\ loading' = FALSE
    /\ net' = net \ {r}
    /\ lastOp' = "me_ok"
    /\ lastReq' = [r EXCEPT !.data = ServerUser(TokenUser(r.auth))]
    /\ UNCHANGED <<token, loginLoading, validTokens, issued, nreq, viewVars>>

\* Mutant of MeFail: the catch handler forgets localStorage.removeItem('token').
MeFail_KeepsToken ==
  \E r \in net :
    /\ r.kind = "me"
    /\ loading' = FALSE
    /\ net' = net \ {r}
    /\ lastOp' = "me_fail"
    /\ lastReq' = r
    /\ UNCHANGED <<token, user, loginLoading, validTokens, issued, nreq, viewVars>>

\* GET /auth/me failed, for whatever reason (rejected token, network, server):
\* .catch(() => localStorage.removeItem('token')).finally(setLoading(false))
MeFail ==
  \E r \in net :
    /\ r.kind = "me"
    /\ token' = NoToken
    /\ loading' = FALSE
    /\ net' = net \ {r}
    /\ lastOp' = "me_fail"
    /\ lastReq' = r
    /\ UNCHANGED <<user, loginLoading, validTokens, issued, nreq, viewVars>>

\* The Login form is rendered only when App is not loading and has no user.
LoginShown == ~loading /\ user = Null

\* Login.handleSubmit up to its await: axios.post (not `api`) to login or register.
handleSubmit(isLogin) ==
  /\ LoginShown
  /\ ~loginLoading
  /\ nreq < MaxReqs
  /\ loginLoading' = TRUE
  /\ net' = net \cup {Request(IF isLogin THEN "login" ELSE "register", NoAuth)}
  /\ nreq' = nreq + 1
  /\ lastOp' = "submit"
  /\ UNCHANGED <<token, user, loading, validTokens, issued, lastReq, viewVars>>

\* Mutant of handleLogin: the token is not written to localStorage.
handleLogin_NoStore(userData, tok) ==
  /\ token' = token
  /\ user' = userData

\* App.handleLogin(userData, token)
handleLogin(userData, tok) ==
  /\ token' = tok
  /\ user' = userData

\* The POST succeeded: the server issued a token for the user `u`;
\* handleSubmit continues with onLogin(response.data.user, response.data.access_token).
SubmitOk ==
  \E r \in net, u \in Users :
    /\ r.kind \in {"login", "register"}
    /\ issued < MaxTokens
    /\ issued' = issued + 1
    /\ validTokens' = validTokens \cup {<<u, issued + 1>>}
    /\ handleLogin(ServerUser(u), <<u, issued + 1>>)
    /\ loginLoading' = FALSE
    /\ net' = net \ {r}
    /\ lastOp' = "submit_ok"
    /\ lastReq' = [r EXCEPT !.data = [user |-> ServerUser(u), access_token |-> <<u, issued + 1>>]]
    /\ UNCHANGED <<loading, nreq, viewVars>>

\* The POST failed: toast.error, then finally setLoading(false).
SubmitFail ==
  \E r \in net :
    /\ r.kind \in {"login", "register"}
    /\ loginLoading' = FALSE
    /\ net' = net \ {r}
    /\ lastOp' = "submit_fail"
    /\ lastReq' = r
    /\ UNCHANGED <<token, user, loading, validTokens, issued, nreq, viewVars>>

\* Mutant of handleLogout: the session state is cleared, the stored token is not.
handleLogout_KeepsToken ==
  /\ ~loading
  /\ user # Null
  /\ user' = Null
  /\ lastOp' = "logout"
  /\ UNCHANGED <<token, loading, loginLoading, validTokens, issued, net, nreq, lastReq, viewVars>>

\* App.handleLogout, reachable from the Navbar of every authenticated view.
handleLogout ==
  /\ ~loading
  /\ user # Null
  /\ token' = NoToken
  /\ user' = Null
  /\ lastOp' = "logout"
  /\ UNCHANGED <<loading, loginLoading, validTokens, issued, net, nreq, lastReq, viewVars>>

\* Any call through `api` made by a view of the authenticated application.
ApiCall ==
  /\ ~loading
  /\ user # Null
  /\ nreq < MaxReqs
  /\ net' = net \cup {Request("api", interceptor(token))}
  /\ nreq' = nreq + 1
  /\ lastOp' = "api"
  /\ UNCHANGED <<token, user, loading, loginLoading, validTokens, issued, lastReq, viewVars>>

\* The response of such a call: its continuation touches no session state.
ApiDone ==
  \E r \in net :
    /\ r.kind = "api"
    /\ net' = net \ {r}
    /\ lastOp' = "api_done"
    /\ lastReq' = r
    /\ UNCHANGED <<token, user, loading, loginLoading, validTokens, issued, nreq, viewVars>>

\* The server stops accepting a token (expiry, revocation).
ServerExpire ==
  \E t \in validTokens :
    /\ validTokens' = validTokens \ {t}
    /\ lastOp' = "expire"
    /\ UNCHANGED <<token, user, loading, loginLoading, issued, net, nreq, lastReq, viewVars>>

(***************************************************************************)
(* Text typed into forms                                                   *)
(***************************************************************************)
WhiteSpace == {" "}
Chars == WhiteSpace \cup {"a"}
Strings == UNION {[1..n -> Chars] : n \in 0..MaxLen}

\* Mutant of trim: the string is tested as typed.
trim_Identity(s) == s

RECURSIVE trimStart(_)
trimStart(s) == IF s # <<>> /\ Head(s) \in WhiteSpace THEN trimStart(Tail(s)) ELSE s

RECURSIVE trimEnd(_)
trimEnd(s) ==
  IF s # <<>> /\ s[Len(s)] \in WhiteSpace THEN trimEnd(SubSeq(s, 1, Len(s) - 1)) ELSE s

\* String.prototype.trim
trim(s) == trimEnd(trimStart(s))

\* A text that is empty or made of white space only.
IsBlank(s) == \A i \in 1..Len(s) : s[i] \in WhiteSpace

(***************************************************************************)
(* Requests of the views.  `snap`, `count` and `flag` are the values the    *)
(* handler closed over, `id` and `category` its arguments, `data` the      *)
(* response body (a list, or the list of the one record returned).         *)
(***************************************************************************)
ViewRequest(rid, kind, snap, id, category) ==
  [rid |-> rid, kind |-> kind, snap |-> snap, count |-> 0, flag |-> FALSE, id |-> id,
   category |-> category, st |-> "sent", data |-> <<>>]

\* The server's answer to r replaces r among the requests in flight.
Answer(reqs, r, st, data) == (reqs \ {r}) \cup {[r EXCEPT !.st = st, !.data = data]}

Ids(list) == {list[i].id : i \in 1..Len(list)}

\* [data, ...list]
prepend(data, list) == <<data>> \o list

\* list.filter(x => x.id !== id)
removeById(list, id) == SelectSeq(list, LAMBDA x : x.id # id)

(***************************************************************************)
(* Feed (src/unnamed/part_003)                                             *)
(***************************************************************************)
Categories == {"general", "news"}
EmptyPost == [content |-> <<>>, category |-> "general"]

\* The posts the server holds when the application is opened.
InitialPosts ==
  << [id |-> 2, user_id |-> "xan", category |-> "news"],
     [id |-> 1, user_id |-> "ana", category |-> "general"] >>

notFeed == <<sessVars, lastReq, view, ann, evs, card, adm, prof>>

\* fetchPosts up to its await: GET /posts with the category of the current filter.
fetchPostsRequest(rid, filter) == ViewRequest(rid, "fetch", <<>>, 0, filter)

\* Feed before it is mounted: the initial values of its useState calls.
\* `evnet` holds the requests of fetchUpcomingEvents, `events` the sidebar.
FeedIdle ==
  [posts |-> <<>>, events |-> <<>>, loading |-> TRUE, showNewPost |-> FALSE,
   newPost |-> EmptyPost, categoryFilter |-> "all", net |-> {}, evnet |-> {}]

\* fetchUpcomingEvents up to its await: GET /events.
fetchUpcomingEventsRequest(rid) == ViewRequest(rid, "upcoming", <<>>, 0, "")

\* A freshly mounted Feed, its effect having called fetchPosts and
\* fetchUpcomingEvents.
FeedMounted ==
  [FeedIdle EXCEPT !.net = {fetchPostsRequest(0, "all")},
                   !.evnet = {fetchUpcomingEventsRequest(0)}]

\* A click on a category button: setCategoryFilter, then the effect on
\* [categoryFilter], which calls fetchPosts and fetchUpcomingEvents.
setCategoryFilter(cat) ==
  /\ view = "feed"
  /\ cat # feed.categoryFilter
  /\ nreq < MaxViewReqs
  /\ feed' = [feed EXCEPT !.categoryFilter = cat,
                          !.net = @ \cup {fetchPostsRequest(nreq + 1, cat)},
                          !.evnet = @ \cup {fetchUpcomingEventsRequest(nreq + 1)}]
  /\ nreq' = nreq + 1
  /\ lastOp' = "setCategoryFilter"
  /\ UNCHANGED <<srv, notFeed>>

\* The button that opens the form.
openNewPost ==
  /\ view = "feed"
  /\ ~feed.showNewPost
  /\ feed' = [feed EXCEPT !.showNewPost = TRUE]
  /\ lastOp' = "openNewPost"
  /\ UNCHANGED <<srv, nreq, notFeed>>

\* onChange of the textarea and of the category select.
setNewPost(content, category) ==
  /\ view = "feed"
  /\ feed.showNewPost
  /\ feed.newPost # [content |-> content, category |-> category]
  /\ feed' = [feed EXCEPT !.newPost = [content |-> content, category |-> category]]
  /\ lastOp' = "setNewPost"
  /\ UNCHANGED <<srv, nreq, notFeed>>

\* The Cancelar button of the form.
cancelNewPost ==
  /\ view = "feed"
  /\ feed.showNewPost
  /\ feed' = [feed EXCEPT !.showNewPost = FALSE, !.newPost = EmptyPost]
  /\ lastOp' = "cancelNewPost"
  /\ UNCHANGED <<srv, nreq, notFeed>>

\* handleCreatePost up to its await.
handleCreatePost ==
  /\ view = "feed"
  /\ feed.showNewPost
  /\ IF trim(feed.newPost.content) = <<>>
       THEN UNCHANGED <<feed, nreq>>
       ELSE /\ nreq < MaxViewReqs
            /\ feed' = [feed EXCEPT !.net = @ \cup
                         {ViewRequest(nreq + 1, "create", feed.posts, 0, feed.newPost.category)}]
            /\ nreq' = nreq + 1
  /\ lastOp' = "handleCreatePost"
  /\ UNCHANGED <<srv, notFeed>>

\* The delete button of a Post is rendered for its author and for admins.
canDelete(post) == user.id = post.user_id \/ user.role = "admin"

\* What the user answered to window.confirm.
Prompt(confirmed) == IF confirmed THEN "confirm:accepted" ELSE "confirm:declined"

\* Mutant of handleDeletePost: the request is sent whatever the answer.
handleDeletePost_NoPrompt(postId, confirmed) ==
  /\ view = "feed"
  /\ \E i \in 1..Len(feed.posts) : feed.posts[i].id = postId /\ canDelete(feed.posts[i])
  /\ nreq < MaxViewReqs
  /\ feed' = [feed EXCEPT !.net = @ \cup
               {ViewRequest(nreq + 1, "delete", feed.posts, postId, "")}]
  /\ nreq' = nreq + 1
  /\ lastOp' = Prompt(confirmed)
  /\ UNCHANGED <<srv, notFeed>>

\* handleDeletePost up to its await; `confirmed` is the answer to window.confirm.
handleDeletePost(postId, confirmed) ==
  /\ view = "feed"
  /\ \E i \in 1..Len(feed.posts) : feed.posts[i].id = postId /\ canDelete(feed.posts[i])
  /\ IF ~confirmed
       THEN UNCHANGED <<feed, nreq>>
       ELSE /\ nreq < MaxViewReqs
            /\ feed' = [feed EXCEPT !.net = @ \cup
                         {ViewRequest(nreq + 1, "delete", feed.posts, postId, "")}]
            /\ nreq' = nreq + 1
  /\ lastOp' = Prompt(confirmed)
  /\ UNCHANGED <<srv, notFeed>>

\* The server handles a request of the feed.
ServerPosts ==
  \E r \in feed.net :
    /\ r.st = "sent"
    /\ \/ /\ r.kind = "fetch"
          /\ feed' = [feed EXCEPT !.net = Answer(@, r, "ok", SelectSeq(srv.posts,
                        LAMBDA p : r.category = "all" \/ p.category = r.category))]
          /\ UNCHANGED srv
       \/ /\ r.kind = "create"
          /\ LET created ==
                   [id |-> srv.nextPostId, user_id |-> user.id, category |-> r.category]
             IN /\ srv' = [srv EXCEPT !.posts = <<created>> \o @, !.nextPostId = @ + 1]
                /\ feed' = [feed EXCEPT !.net = Answer(@, r, "ok", <<created>>)]
       \/ /\ r.kind = "delete"
          /\ r.id \in Ids(srv.posts)
          /\ srv' = [srv EXCEPT !.posts = removeById(@, r.id)]
          /\ feed' = [feed EXCEPT !.net = Answer(@, r, "ok", <<>>)]
       \/ /\ feed' = [feed EXCEPT !.net = Answer(@, r, "fail", <<>>)]
          /\ UNCHANGED srv
    /\ lastOp' = "server"
    /\ UNCHANGED <<nreq, notFeed>>

\* Mutant of fetchPostsOk: the fetched posts are added to the local list.
fetchPostsOk_Merges ==
  \E r \in feed.net :
    /\ r.kind = "fetch" /\ r.st = "ok"
    /\ feed' = [feed EXCEPT !.posts = @ \o r.data, !.loading = FALSE, !.net = @ \ {r}]
    /\ lastOp' = "fetchPostsOk"
    /\ UNCHANGED <<srv, nreq, notFeed>>

\* fetchPosts after its await: setPosts(response.data), finally setLoading(false).
fetchPostsOk ==
  \E r \in feed.net :
    /\ r.kind = "fetch" /\ r.st = "ok"
    /\ feed' = [feed EXCEPT !.posts = r.data, !.loading = FALSE, !.net = @ \ {r}]
    /\ lastOp' = "fetchPostsOk"
    /\ UNCHANGED <<srv, nreq, notFeed>>

\* fetchPosts, the request failed: toast, finally setLoading(false).
fetchPostsFail ==
  \E r \in feed.net :
    /\ r.kind = "fetch" /\ r.st = "fail"
    /\ feed' = [feed EXCEPT !.loading = FALSE, !.net = @ \ {r}]
    /\ lastOp' = "fetchPostsFail"
    /\ UNCHANGED <<srv, nreq, notFeed>>

\* handleCreatePost after its await: setPosts([response.data, ...posts]) with the
\* `posts` of the render the form was submitted in; the form is reset and closed.
createPostOk ==
  \E r \in feed.net :
    /\ r.kind = "create" /\ r.st = "ok"
    /\ feed' = [feed EXCEPT !.posts = prepend(r.data[1], r.snap), !.newPost = EmptyPost,
                            !.showNewPost = FALSE, !.net = @ \ {r}]
    /\ lastOp' = "createPostOk"
    /\ UNCHANGED <<srv, nreq, notFeed>>

\* handleCreatePost, the request failed: toast only.
createPostFail ==
  \E r \in feed.net :
    /\ r.kind = "create" /\ r.st = "fail"
    /\ feed' = [feed EXCEPT !.net = @ \ {r}]
    /\ lastOp' = "createPostFail"
    /\ UNCHANGED <<srv, nreq, notFeed>>

\* handleDeletePost after its await: setPosts(posts.filter(p => p.id !== postId))
\* with the `posts` of the render the button was clicked in.
deletePostOk ==
  \E r \in feed.net :
    /\ r.kind = "delete" /\ r.st = "ok"
    /\ feed' = [feed EXCEPT !.posts = removeById(r.snap, r.id), !.net = @ \ {r}]
    /\ lastOp' = "deletePostOk"
    /\ UNCHANGED <<srv, nreq, notFeed>>

\* handleDeletePost, the request failed: toast only.
deletePostFail ==
  \E r \in feed.net :
    /\ r.kind = "delete" /\ r.st = "fail"
    /\ feed' = [feed EXCEPT !.net = @ \ {r}]
    /\ lastOp' = "deletePostFail"
    /\ UNCHANGED <<srv, nreq, notFeed>>

(***************************************************************************)
(* Feed: the sidebar of upcoming events (fetchUpcomingEvents)              *)
(***************************************************************************)
\* The reading of the clock, `new Date()`, and the dates of the events
\* relative to it.
Now == 1
EventStarts == {1, 2}
EventEnds == {0, 1, 2}

\* .slice(0, 5)
SidebarSize == 5

\* A list GET /events can return: event i has id i and the dates dates[i].
EventList(n, dates) ==
  [i \in 1..n |-> [id |-> i, start_date |-> dates[i][1], end_date |-> dates[i][2]]]

\* Mutant of filterUpcoming: the start date decides.
filterUpcoming_ByStart(list, now) == SelectSeq(list, LAMBDA event : event.start_date > now)

\* .filter(event => new Date(event.end_date) > now)
filterUpcoming(list, now) == SelectSeq(list, LAMBDA event : event.end_date > now)

\* One step of the sort: `event` goes behind every entry that does not start later.
RECURSIVE insertByStart(_, _)
insertByStart(event, sorted) ==
  IF sorted = <<>> THEN <<event>>
  ELSE IF Head(sorted).start_date - event.start_date > 0
         THEN <<event>> \o sorted
         ELSE <<Head(sorted)>> \o insertByStart(event, Tail(sorted))

\* .sort((a, b) => new Date(a.start_date) - new Date(b.start_date)), a stable sort.
RECURSIVE sortByStart(_)
sortByStart(list) ==
  IF list = <<>> THEN <<>>
  ELSE insertByStart(list[Len(list)], sortByStart(SubSeq(list, 1, Len(list) - 1)))

\* .slice(0, n)
slice(list, n) == SubSeq(list, 1, IF Len(list) < n THEN Len(list) ELSE n)

\* The derivation of the sidebar from the response.
upcomingEvents(data, now) == slice(sortByStart(filterUpcoming(data, now)), SidebarSize)

\* The server handles GET /events of the sidebar.
ServerUpcoming ==
  \E r \in feed.evnet :
    /\ r.st = "sent"
    /\ \/ feed' = [feed EXCEPT !.evnet = Answer(@, r, "ok", srv.events)]
       \/ feed' = [feed EXCEPT !.evnet = Answer(@, r, "fail", <<>>)]
    /\ lastOp' = "server"
    /\ UNCHANGED <<srv, nreq, notFeed>>

\* fetchUpcomingEvents after its await: setEvents(upcomingEvents).
fetchUpcomingEventsOk ==
  \E r \in feed.evnet :
    /\ r.st = "ok"
    /\ feed' = [feed EXCEPT !.events = upcomingEvents(r.data, Now), !.evnet = @ \ {r}]
    /\ lastOp' = "fetchUpcomingEventsOk"
    /\ UNCHANGED <<srv, nreq, notFeed>>

\* fetchUpcomingEvents, the request failed: the error is logged.
fetchUpcomingEventsFail ==
  \E r \in feed.evnet :
    /\ r.st = "fail"
    /\ feed' = [feed EXCEPT !.evnet = @ \ {r}]
    /\ lastOp' = "fetchUpcomingEventsFail"
    /\ UNCHANGED <<srv, nreq, notFeed>>

(***************************************************************************)
(* Announcements (Announcements.js)                                        *)
(***************************************************************************)
AnnouncementCategories == {"general", "urgent"}
EmptyAnnouncement == [title |-> <<>>, content |-> <<>>, category |-> "general"]

\* The announcements the server holds when the application is opened.
InitialAnnouncements == << [id |-> 1, category |-> "general"] >>

notAnn == <<sessVars, lastReq, view, feed, evs, card, adm, prof>>

\* Announcements before it is mounted: the initial values of its useState calls.
AnnIdle ==
  [announcements |-> <<>>, loading |-> TRUE, showNewAnnouncement |-> FALSE,
   newAnnouncement |-> EmptyAnnouncement, net |-> {}]

\* A freshly mounted Announcements, its effect having called fetchAnnouncements.
AnnMounted == [AnnIdle EXCEPT !.net = {ViewRequest(0, "fetch", <<>>, 0, "")}]

\* The Nuevo Anuncio button (rendered for admins) and the Cancelar button.
setShowNewAnnouncement(show) ==
  /\ view = "announcements"
  /\ user.role = "admin"
  /\ show # ann.showNewAnnouncement
  /\ ann' = [ann EXCEPT !.showNewAnnouncement = show]
  /\ lastOp' = "setShowNewAnnouncement"
  /\ UNCHANGED <<srv, nreq, notAnn>>

\* onChange of the fields of the form.
setNewAnnouncement(title, content, category) ==
  /\ view = "announcements"
  /\ user.role = "admin"
  /\ ann.showNewAnnouncement
  /\ ann.newAnnouncement # [title |-> title, content |-> content, category |-> category]
  /\ ann' = [ann EXCEPT !.newAnnouncement =
                          [title |-> title, content |-> content, category |-> category]]
  /\ lastOp' = "setNewAnnouncement"
  /\ UNCHANGED <<srv, nreq, notAnn>>

\* handleCreateAnnouncement up to its await.
handleCreateAnnouncement ==
  /\ view = "announcements"
  /\ user.role = "admin"
  /\ ann.showNewAnnouncement
  /\ IF trim(ann.newAnnouncement.title) = <<>> \/ trim(ann.newAnnouncement.content) = <<>>
       THEN UNCHANGED <<ann, nreq>>
       ELSE /\ nreq < MaxViewReqs
            /\ ann' = [ann EXCEPT !.net = @ \cup
                        {ViewRequest(nreq + 1, "create", ann.announcements, 0,
                                     ann.newAnnouncement.category)}]
            /\ nreq' = nreq + 1
  /\ lastOp' = "handleCreateAnnouncement"
  /\ UNCHANGED <<srv, notAnn>>

\* handleDeleteAnnouncement up to its await; the button is rendered for admins.
handleDeleteAnnouncement(id, confirmed) ==
  /\ view = "announcements"
  /\ user.role = "admin"
  /\ id \in Ids(ann.announcements)
  /\ IF ~confirmed
       THEN UNCHANGED <<ann, nreq>>
       ELSE /\ nreq < MaxViewReqs
            /\ ann' = [ann EXCEPT !.net = @ \cup
                        {ViewRequest(nreq + 1, "delete", ann.announcements, id, "")}]
            /\ nreq' = nreq + 1
  /\ lastOp' = Prompt(confirmed)
  /\ UNCHANGED <<srv, notAnn>>

\* The server handles a request of Announcements.
ServerAnnouncements ==
  \E r \in ann.net :
    /\ r.st = "sent"
    /\ \/ /\ r.kind = "fetch"
          /\ ann' = [ann EXCEPT !.net = Answer(@, r, "ok", srv.announcements)]
          /\ UNCHANGED srv
       \/ /\ r.kind = "create"
          /\ LET created == [id |-> srv.nextAnnouncementId, category |-> r.category]
             IN /\ srv' = [srv EXCEPT !.announcements = <<created>> \o @,
                                      !.nextAnnouncementId = @ + 1]
                /\ ann' = [ann EXCEPT !.net = Answer(@, r, "ok", <<created>>)]
       \/ /\ r.kind = "delete"
          /\ r.id \in Ids(srv.announcements)
          /\ srv' = [srv EXCEPT !.announcements = removeById(@, r.id)]
          /\ ann' = [ann EXCEPT !.net = Answer(@, r, "ok", <<>>)]
       \/ /\ ann' = [ann EXCEPT !.net = Answer(@, r, "fail", <<>>)]
          /\ UNCHANGED srv
    /\ lastOp' = "server"
    /\ UNCHANGED <<nreq, notAnn>>

\* fetchAnnouncements after its await: setAnnouncements(response.data).
fetchAnnouncementsOk ==
  \E r \in ann.net :
    /\ r.kind = "fetch" /\ r.st = "ok"
    /\ ann' = [ann EXCEPT !.announcements = r.data, !.loading = FALSE, !.net = @ \ {r}]
    /\ lastOp' = "fetchAnnouncementsOk"
    /\ UNCHANGED <<srv, nreq, notAnn>>

\* fetchAnnouncements, the request failed: toast, finally setLoading(false).
fetchAnnouncementsFail ==
  \E r \in ann.net :
    /\ r.kind = "fetch" /\ r.st = "fail"
    /\ ann' = [ann EXCEPT !.loading = FALSE, !.net = @ \ {r}]
    /\ lastOp' = "fetchAnnouncementsFail"
    /\ UNCHANGED <<srv, nreq, notAnn>>

\* handleCreateAnnouncement after its await:
\* setAnnouncements([response.data, ...announcements]); the form is reset and closed.
createAnnouncementOk ==
  \E r \in ann.net :
    /\ r.kind = "create" /\ r.st = "ok"
    /\ ann' = [ann EXCEPT !.announcements = prepend(r.data[1], r.snap),
                          !.newAnnouncement = EmptyAnnouncement,
                          !.showNewAnnouncement = FALSE, !.net = @ \ {r}]
    /\ lastOp' = "createAnnouncementOk"
    /\ UNCHANGED <<srv, nreq, notAnn>>

\* handleCreateAnnouncement, the request failed: toast only.
createAnnouncementFail ==
  \E r \in ann.net :
    /\ r.kind = "create" /\ r.st = "fail"
    /\ ann' = [ann EXCEPT !.net = @ \ {r}]
    /\ lastOp' = "createAnnouncementFail"
    /\ UNCHANGED <<srv, nreq, notAnn>>

\* handleDeleteAnnouncement after its await:
\* setAnnouncements(announcements.filter(a => a.id !== id)).
deleteAnnouncementOk ==
  \E r \in ann.net :
    /\ r.kind = "delete" /\ r.st = "ok"
    /\ ann' = [ann EXCEPT !.announcements = removeById(r.snap, r.id), !.net = @ \ {r}]
    /\ lastOp' = "deleteAnnouncementOk"
    /\ UNCHANGED <<srv, nreq, notAnn>>

\* handleDeleteAnnouncement, the request failed: toast only.
deleteAnnouncementFail ==
  \E r \in ann.net :
    /\ r.kind = "delete" /\ r.st = "fail"
    /\ ann' = [ann EXCEPT !.net = @ \ {r}]
    /\ lastOp' = "deleteAnnouncementFail"
    /\ UNCHANGED <<srv, nreq, notAnn>>

(***************************************************************************)
(* Events (Events.js)                                                      *)
(***************************************************************************)
\* The value of a datetime-local input: empty or a date.
Dates == {<<>>, <<"d">>}
EmptyEvent == [title |-> <<>>, start_date |-> <<>>, end_date |-> <<>>]
InitialEvents == << [id |-> 1] >>

\* selectedEvent === null
NoEvent == [id |-> 0]
Statuses == {"attending", "maybe", "not_attending"}

notEvs == <<sessVars, lastReq, view, feed, ann, card, adm, prof>>

\* Events before it is mounted: the initial values of its useState calls.
EvsIdle ==
  [events |-> <<>>, loading |-> TRUE, showNewEvent |-> FALSE, newEvent |-> EmptyEvent,
   selectedEvent |-> NoEvent, attendances |-> <<>>, net |-> {}]

\* A freshly mounted Events, its effect having called fetchEvents.
EvsMounted == [EvsIdle EXCEPT !.net = {ViewRequest(0, "fetch", <<>>, 0, "")}]

\* The Nuevo Evento button (a toggle) and the Cancelar button.
setShowNewEvent(show) ==
  /\ view = "events"
  /\ show # evs.showNewEvent
  /\ evs' = [evs EXCEPT !.showNewEvent = show]
  /\ lastOp' = "setShowNewEvent"
  /\ UNCHANGED <<srv, nreq, notEvs>>

\* onChange of the fields of the form.
setNewEvent(title, start, end) ==
  /\ view = "events"
  /\ evs.showNewEvent
  /\ evs.newEvent # [title |-> title, start_date |-> start, end_date |-> end]
  /\ evs' = [evs EXCEPT !.newEvent = [title |-> title, start_date |-> start, end_date |-> end]]
  /\ lastOp' = "setNewEvent"
  /\ UNCHANGED <<srv, nreq, notEvs>>

\* handleCreateEvent up to its await.
handleCreateEvent ==
  /\ view = "events"
  /\ evs.showNewEvent
  /\ IF \/ trim(evs.newEvent.title) = <<>>
        \/ evs.newEvent.start_date = <<>>
        \/ evs.newEvent.end_date = <<>>
       THEN UNCHANGED <<evs, nreq>>
       ELSE /\ nreq < MaxViewReqs
            /\ evs' = [evs EXCEPT !.net = @ \cup
                        {ViewRequest(nreq + 1, "create", evs.events, 0, "")}]
            /\ nreq' = nreq + 1
  /\ lastOp' = "handleCreateEvent"
  /\ UNCHANGED <<srv, notEvs>>

\* fetchAttendances up to its await: GET /events/{eventId}/attendances.  `status`
\* and `version` are those of the attendance write the fetch follows, if any.
fetchAttendancesRequest(rid, eventId, status, version) ==
  [ViewRequest(rid, "roster", <<>>, eventId, status) EXCEPT !.count = version]

\* handleSelectEvent: a click on an event of the calendar.
handleSelectEvent(event) ==
  /\ view = "events"
  /\ event \in {evs.events[i] : i \in 1..Len(evs.events)}
  /\ nreq < MaxEventReqs
  /\ evs' = [evs EXCEPT !.selectedEvent = event,
                        !.net = @ \cup {fetchAttendancesRequest(nreq + 1, event.id, "", 0)}]
  /\ nreq' = nreq + 1
  /\ lastOp' = "handleSelectEvent"
  /\ UNCHANGED <<srv, notEvs>>

\* handleAttendance up to its await, called by the buttons of the selected
\* event; the request keeps the `selectedEvent` of this render.
handleAttendance(status) ==
  /\ view = "events"
  /\ evs.selectedEvent # NoEvent
  /\ nreq < MaxEventReqs
  /\ evs' = [evs EXCEPT !.net = @ \cup
              {ViewRequest(nreq + 1, "attend", <<evs.selectedEvent>>,
                           evs.selectedEvent.id, status)}]
  /\ nreq' = nreq + 1
  /\ lastOp' = "handleAttendance"
  /\ UNCHANGED <<srv, notEvs>>

\* handleDeleteEvent up to its await, called by the delete button of the
\* selected event, which admins see; `confirmed` is the answer to window.confirm.
handleDeleteEvent(confirmed) ==
  /\ view = "events"
  /\ evs.selectedEvent # NoEvent
  /\ user.role = "admin"
  /\ IF ~confirmed
       THEN UNCHANGED <<evs, nreq>>
       ELSE /\ nreq < MaxEventReqs
            /\ evs' = [evs EXCEPT !.net = @ \cup
                        {ViewRequest(nreq + 1, "delete", evs.events, evs.selectedEvent.id, "")}]
            /\ nreq' = nreq + 1
  /\ lastOp' = Prompt(confirmed)
  /\ UNCHANGED <<srv, notEvs>>

\* The roster of an event as the server returns it.
Roster(eventId) == SelectSeq(srv.attendances, LAMBDA a : a.event_id = eventId)

\* The server's attendances after `u` has posted `status` for the event: at
\* most one attendance per event and user.
Attend(attendances, eventId, u, status) ==
  IF \E i \in 1..Len(attendances) :
       attendances[i].event_id = eventId /\ attendances[i].user_id = u
    THEN [i \in 1..Len(attendances) |->
            IF attendances[i].event_id = eventId /\ attendances[i].user_id = u
              THEN [attendances[i] EXCEPT !.status = status]
              ELSE attendances[i]]
    ELSE attendances \o <<[event_id |-> eventId, user_id |-> u, status |-> status]>>

\* The server handles a request of Events.  `version` counts the changes of the
\* attendances; the answer to an attendance write tells the version it made.
ServerEvents ==
  \E r \in evs.net :
    /\ r.st = "sent"
    /\ \/ /\ r.kind = "fetch"
          /\ evs' = [evs EXCEPT !.net = Answer(@, r, "ok", srv.events)]
          /\ UNCHANGED srv
       \/ /\ r.kind = "create"
          /\ LET created == [id |-> srv.nextEventId]
             IN /\ srv' = [srv EXCEPT !.events = @ \o <<created>>, !.nextEventId = @ + 1]
                /\ evs' = [evs EXCEPT !.net = Answer(@, r, "ok", <<created>>)]
       \/ /\ r.kind = "delete"
          /\ r.id \in Ids(srv.events)
          /\ srv' = [srv EXCEPT !.events = removeById(@, r.id),
                                !.attendances = SelectSeq(@, LAMBDA a : a.event_id # r.id),
                                !.version = @ + 1]
          /\ evs' = [evs EXCEPT !.net = Answer(@, r, "ok", <<>>)]
       \/ /\ r.kind = "roster"
          /\ r.id \in Ids(srv.events)
          /\ evs' = [evs EXCEPT !.net = Answer(@, r, "ok", Roster(r.id))]
          /\ UNCHANGED srv
       \/ /\ r.kind = "attend"
          /\ r.id \in Ids(srv.events)
          /\ srv' = [srv EXCEPT !.attendances = Attend(@, r.id, user.id, r.category),
                                !.version = @ + 1]
          /\ evs' = [evs EXCEPT !.net =
                       (@ \ {r}) \cup {[r EXCEPT !.st = "ok", !.count = srv.version + 1]}]
       \/ /\ evs' = [evs EXCEPT !.net = Answer(@, r, "fail", <<>>)]
          /\ UNCHANGED srv
    /\ lastOp' = "server"
    /\ UNCHANGED <<nreq, notEvs>>

\* fetchEvents after its await: setEvents(response.data), finally setLoading(false).
fetchEventsOk ==
  \E r \in evs.net :
    /\ r.kind = "fetch" /\ r.st = "ok"
    /\ evs' = [evs EXCEPT !.events = r.data, !.loading = FALSE, !.net = @ \ {r}]
    /\ lastOp' = "fetchEventsOk"
    /\ UNCHANGED <<srv, nreq, notEvs>>

\* fetchEvents, the request failed: toast, finally setLoading(false).
fetchEventsFail ==
  \E r \in evs.net :
    /\ r.kind = "fetch" /\ r.st = "fail"
    /\ evs' = [evs EXCEPT !.loading = FALSE, !.net = @ \ {r}]
    /\ lastOp' = "fetchEventsFail"
    /\ UNCHANGED <<srv, nreq, notEvs>>

\* handleCreateEvent after its await: setEvents([...events, response.data]);
\* the form is reset and closed.
createEventOk ==
  \E r \in evs.net :
    /\ r.kind = "create" /\ r.st = "ok"
    /\ evs' = [evs EXCEPT !.events = r.snap \o <<r.data[1]>>, !.newEvent = EmptyEvent,
                          !.showNewEvent = FALSE, !.net = @ \ {r}]
    /\ lastOp' = "createEventOk"
    /\ UNCHANGED <<srv, nreq, notEvs>>

\* handleCreateEvent, the request failed: toast only.
createEventFail ==
  \E r \in evs.net :
    /\ r.kind = "create" /\ r.st = "fail"
    /\ evs' = [evs EXCEPT !.net = @ \ {r}]
    /\ lastOp' = "createEventFail"
    /\ UNCHANGED <<srv, nreq, notEvs>>

\* Mutant of fetchAttendancesOk: the fetched roster is added to the local one.
fetchAttendancesOk_Appends ==
  \E r \in evs.net :
    /\ r.kind = "roster" /\ r.st = "ok"
    /\ evs' = [evs EXCEPT !.attendances = @ \o r.data, !.net = @ \ {r}]
    /\ lastOp' = "fetchAttendancesOk"
    /\ UNCHANGED <<srv, nreq, notEvs>>

\* fetchAttendances after its await: setAttendances(response.data).
fetchAttendancesOk ==
  \E r \in evs.net :
    /\ r.kind = "roster" /\ r.st = "ok"
    /\ evs' = [evs EXCEPT !.attendances = r.data, !.net = @ \ {r}]
    /\ lastOp' = "fetchAttendancesOk"
    /\ UNCHANGED <<srv, nreq, notEvs>>

\* fetchAttendances, the request failed: toast only.
fetchAttendancesFail ==
  \E r \in evs.net :
    /\ r.kind = "roster" /\ r.st = "fail"
    /\ evs' = [evs EXCEPT !.net = @ \ {r}]
    /\ lastOp' = "fetchAttendancesFail"
    /\ UNCHANGED <<srv, nreq, notEvs>>

\* handleAttendance after its await: toast, then fetchAttendances(eventId) if the
\* `selectedEvent` of the render the button was clicked in is this event.
attendanceOk ==
  \E r \in evs.net :
    /\ r.kind = "attend" /\ r.st = "ok"
    /\ evs' = [evs EXCEPT !.net =
                 IF r.snap[1] # NoEvent /\ r.snap[1].id = r.id
                   THEN (@ \ {r}) \cup
                          {fetchAttendancesRequest(r.rid, r.id, r.category, r.count)}
                   ELSE @ \ {r}]
    /\ lastOp' = "attendanceOk"
    /\ UNCHANGED <<srv, nreq, notEvs>>

\* handleAttendance, the request failed: toast only.
attendanceFail ==
  \E r \in evs.net :
    /\ r.kind = "attend" /\ r.st = "fail"
    /\ evs' = [evs EXCEPT !.net = @ \ {r}]
    /\ lastOp' = "attendanceFail"
    /\ UNCHANGED <<srv, nreq, notEvs>>

\* handleDeleteEvent after its await: setEvents(events.filter(e => e.id !== id))
\* with the `events` of the render the button was clicked in, setSelectedEvent(null).
deleteEventOk ==
  \E r \in evs.net :
    /\ r.kind = "delete" /\ r.st = "ok"
    /\ evs' = [evs EXCEPT !.events = removeById(r.snap, r.id),
                          !.selectedEvent = NoEvent, !.net = @ \ {r}]
    /\ lastOp' = "deleteEventOk"
    /\ UNCHANGED <<srv, nreq, notEvs>>

\* handleDeleteEvent, the request failed: toast only.
deleteEventFail ==
  \E r \in evs.net :
    /\ r.kind = "delete" /\ r.st = "fail"
    /\ evs' = [evs EXCEPT !.net = @ \ {r}]
    /\ lastOp' = "deleteEventFail"
    /\ UNCHANGED <<srv, nreq, notEvs>>

(***************************************************************************)
(* Post (src/unnamed/part_002): one card of the feed, of a post nobody has  *)
(* liked yet                                                               *)
(***************************************************************************)
InitialComments == << [id |-> 1, user_id |-> "xan"] >>
InitialLikes == {}

notCard == <<sessVars, lastReq, view, feed, ann, evs, adm, prof>>

\* Post before it is mounted: the initial values of its useState calls.
CardIdle ==
  [liked |-> FALSE, likesCount |-> 0,
   comments |-> <<>>, commentsCount |-> 0, newComment |-> <<>>, showComments |-> FALSE,
   loadingComments |-> FALSE, net |-> {}]

\* A freshly mounted Post of the post as the server holds it: likesCount starts
\* as post.likes.length, and the effect has set `liked` from post.likes and
\* called loadCommentsCount.
CardMounted ==
  [CardIdle EXCEPT !.liked = user.id \in srv.likes,
                   !.likesCount = Cardinality(srv.likes),
                   !.net = {ViewRequest(0, "count", <<>>, 0, "")}]

\* Mutant of handleLike: the flag is flipped when the button is clicked.
handleLike_Optimistic ==
  /\ view = "post"
  /\ nreq < MaxCardReqs
  /\ card' = [card EXCEPT !.liked = ~@, !.net = @ \cup
               {[ViewRequest(nreq + 1, "like", <<>>, 0, "") EXCEPT !.flag = card.liked]}]
  /\ nreq' = nreq + 1
  /\ lastOp' = "handleLike"
  /\ UNCHANGED <<srv, notCard>>

\* handleLike up to its await; the request keeps the `liked` of this render.
handleLike ==
  /\ view = "post"
  /\ nreq < MaxCardReqs
  /\ card' = [card EXCEPT !.net = @ \cup
               {[ViewRequest(nreq + 1, "like", <<>>, 0, "") EXCEPT !.flag = card.liked]}]
  /\ nreq' = nreq + 1
  /\ lastOp' = "handleLike"
  /\ UNCHANGED <<srv, notCard>>

\* handleLike after its await: setLikesCount(response.data.likes),
\* setLiked(!liked) with the `liked` of the render the button was clicked in.
likeOk ==
  \E r \in card.net :
    /\ r.kind = "like" /\ r.st = "ok"
    /\ card' = [card EXCEPT !.likesCount = r.data[1].likes, !.liked = ~r.flag,
                            !.net = @ \ {r}]
    /\ lastOp' = "likeOk"
    /\ UNCHANGED <<srv, nreq, notCard>>

\* handleLike, the request failed: toast only.
likeFail ==
  \E r \in card.net :
    /\ r.kind = "like" /\ r.st = "fail"
    /\ card' = [card EXCEPT !.net = @ \ {r}]
    /\ lastOp' = "likeFail"
    /\ UNCHANGED <<srv, nreq, notCard>>

\* The comment form is rendered inside the opened, loaded thread.
CommentFormShown == card.showComments /\ ~card.loadingComments

\* fetchComments up to its await (the comment button).
fetchComments ==
  /\ view = "post"
  /\ IF Len(card.comments) > 0
       THEN /\ card' = [card EXCEPT !.showComments = ~@]
            /\ UNCHANGED nreq
       ELSE /\ nreq < MaxCardReqs
            /\ card' = [card EXCEPT !.loadingComments = TRUE,
                                    !.net = @ \cup {ViewRequest(nreq + 1, "comments", <<>>, 0, "")}]
            /\ nreq' = nreq + 1
  /\ lastOp' = "fetchComments"
  /\ UNCHANGED <<srv, notCard>>

\* onChange of the comment input.
setNewComment(text) ==
  /\ view = "post"
  /\ CommentFormShown
  /\ text # card.newComment
  /\ card' = [card EXCEPT !.newComment = text]
  /\ lastOp' = "setNewComment"
  /\ UNCHANGED <<srv, nreq, notCard>>

\* handleComment up to its await.
handleComment ==
  /\ view = "post"
  /\ CommentFormShown
  /\ IF trim(card.newComment) = <<>>
       THEN UNCHANGED <<card, nreq>>
       ELSE /\ nreq < MaxCardReqs
            /\ card' = [card EXCEPT !.net = @ \cup
                         {[ViewRequest(nreq + 1, "create", card.comments, 0, "")
                             EXCEPT !.count = card.commentsCount]}]
            /\ nreq' = nreq + 1
  /\ lastOp' = "handleComment"
  /\ UNCHANGED <<srv, notCard>>

\* The delete button of a comment is rendered for its author and for admins.
canDeleteComment(comment) == user.id = comment.user_id \/ user.role = "admin"

\* Mutant of handleDeleteComment: the request is sent whatever the answer.
handleDeleteComment_NoPrompt(commentId, confirmed) ==
  /\ view = "post"
  /\ CommentFormShown
  /\ \E i \in 1..Len(card.comments) :
       card.comments[i].id = commentId /\ canDeleteComment(card.comments[i])
  /\ nreq < MaxCardReqs
  /\ card' = [card EXCEPT !.net = @ \cup
               {[ViewRequest(nreq + 1, "delete", card.comments, commentId, "")
                   EXCEPT !.count = card.commentsCount]}]
  /\ nreq' = nreq + 1
  /\ lastOp' = Prompt(confirmed)
  /\ UNCHANGED <<srv, notCard>>

\* handleDeleteComment up to its await; `confirmed` is the answer to window.confirm.
handleDeleteComment(commentId, confirmed) ==
  /\ view = "post"
  /\ CommentFormShown
  /\ \E i \in 1..Len(card.comments) :
       card.comments[i].id = commentId /\ canDeleteComment(card.comments[i])
  /\ IF ~confirmed
       THEN UNCHANGED <<card, nreq>>
       ELSE /\ nreq < MaxCardReqs
            /\ card' = [card EXCEPT !.net = @ \cup
                         {[ViewRequest(nreq + 1, "delete", card.comments, commentId, "")
                             EXCEPT !.count = card.commentsCount]}]
            /\ nreq' = nreq + 1
  /\ lastOp' = Prompt(confirmed)
  /\ UNCHANGED <<srv, notCard>>

\* The server handles a request of the card.
ServerComments ==
  \E r \in card.net :
    /\ r.st = "sent"
    /\ \/ /\ r.kind \in {"count", "comments"}
          /\ card' = [card EXCEPT !.net = Answer(@, r, "ok", srv.comments)]
          /\ UNCHANGED srv
       \/ /\ r.kind = "create"
          /\ LET created == [id |-> srv.nextCommentId, user_id |-> user.id]
             IN /\ srv' = [srv EXCEPT !.comments = @ \o <<created>>, !.nextCommentId = @ + 1]
                /\ card' = [card EXCEPT !.net = Answer(@, r, "ok", <<created>>)]
       \/ /\ r.kind = "delete"
          /\ r.id \in Ids(srv.comments)
          /\ srv' = [srv EXCEPT !.comments = removeById(@, r.id)]
          /\ card' = [card EXCEPT !.net = Answer(@, r, "ok", <<>>)]
       \/ /\ r.kind = "like"
          /\ LET likes == IF user.id \in srv.likes THEN srv.likes \ {user.id}
                                                   ELSE srv.likes \cup {user.id}
             IN /\ srv' = [srv EXCEPT !.likes = likes]
                /\ card' = [card EXCEPT !.net =
                             Answer(@, r, "ok", <<[likes |-> Cardinality(likes)]>>)]
       \/ /\ card' = [card EXCEPT !.net = Answer(@, r, "fail", <<>>)]
          /\ UNCHANGED srv
    /\ lastOp' = "server"
    /\ UNCHANGED <<nreq, notCard>>

\* loadCommentsCount after its await: setCommentsCount(response.data.length);
\* a failure is only logged.
loadCommentsCountDone ==
  \E r \in card.net :
    /\ r.kind = "count" /\ r.st # "sent"
    /\ card' = [card EXCEPT !.commentsCount = IF r.st = "ok" THEN Len(r.data) ELSE @,
                            !.net = @ \ {r}]
    /\ lastOp' = "loadCommentsCountDone"
    /\ UNCHANGED <<srv, nreq, notCard>>

\* fetchComments after its await: setComments(response.data), setShowComments(true),
\* finally setLoadingComments(false).
fetchCommentsOk ==
  \E r \in card.net :
    /\ r.kind = "comments" /\ r.st = "ok"
    /\ card' = [card EXCEPT !.comments = r.data, !.showComments = TRUE,
                            !.loadingComments = FALSE, !.net = @ \ {r}]
    /\ lastOp' = "fetchCommentsOk"
    /\ UNCHANGED <<srv, nreq, notCard>>

\* fetchComments, the request failed: toast, finally setLoadingComments(false).
fetchCommentsFail ==
  \E r \in card.net :
    /\ r.kind = "comments" /\ r.st = "fail"
    /\ card' = [card EXCEPT !.loadingComments = FALSE, !.net = @ \ {r}]
    /\ lastOp' = "fetchCommentsFail"
    /\ UNCHANGED <<srv, nreq, notCard>>

\* handleComment after its await: setComments([...comments, response.data]),
\* setCommentsCount(commentsCount + 1), setNewComment('').
commentOk ==
  \E r \in card.net :
    /\ r.kind = "create" /\ r.st = "ok"
    /\ card' = [card EXCEPT !.comments = r.snap \o <<r.data[1]>>,
                            !.commentsCount = r.count + 1,
                            !.newComment = <<>>, !.net = @ \ {r}]
    /\ lastOp' = "commentOk"
    /\ UNCHANGED <<srv, nreq, notCard>>

\* handleComment, the request failed: toast only.
commentFail ==
  \E r \in card.net :
    /\ r.kind = "create" /\ r.st = "fail"
    /\ card' = [card EXCEPT !.net = @ \ {r}]
    /\ lastOp' = "commentFail"
    /\ UNCHANGED <<srv, nreq, notCard>>

\* handleDeleteComment after its await: setComments(comments.filter(...)),
\* setCommentsCount(commentsCount - 1) with the values of the render the button
\* was clicked in.
deleteCommentOk ==
  \E r \in card.net :
    /\ r.kind = "delete" /\ r.st = "ok"
    /\ card' = [card EXCEPT !.comments = removeById(r.snap, r.id),
                            !.commentsCount = r.count - 1, !.net = @ \ {r}]
    /\ lastOp' = "deleteCommentOk"
    /\ UNCHANGED <<srv, nreq, notCard>>

\* handleDeleteComment, the request failed: toast only.
deleteCommentFail ==
  \E r \in card.net :
    /\ r.kind = "delete" /\ r.st = "fail"
    /\ card' = [card EXCEPT !.net = @ \ {r}]
    /\ lastOp' = "deleteCommentFail"
    /\ UNCHANGED <<srv, nreq, notCard>>

(***************************************************************************)
(* AdminPanel (src/unnamed/part_001)                                       *)
(***************************************************************************)
notAdm == <<sessVars, lastReq, view, feed, ann, evs, card, prof>>

\* useState(null), useState([]), useState(true).  `stats` is the empty list for
\* null and the list of the one record of the response otherwise.
AdmIdle == [stats |-> <<>>, users |-> <<>>, loading |-> TRUE, net |-> {}]

fetchStatsRequest(rid) == ViewRequest(rid, "stats", <<>>, "", "")
fetchUsersRequest(rid) == ViewRequest(rid, "users", <<>>, "", "")

\* useEffect(() => { fetchStats(); fetchUsers(); }, [])
AdmMounted == [AdmIdle EXCEPT !.net = {fetchStatsRequest(0), fetchUsersRequest(0)}]

\* currentRole === 'admin' ? 'member' : 'admin'
newRole(currentRole) == IF currentRole = "admin" THEN "member" ELSE "admin"

\* users.map(u => u.id === userId ? { ...u, role: newRole } : u)
setRole(users, userId, role) ==
  [i \in 1..Len(users) |->
     IF users[i].id = userId THEN [users[i] EXCEPT !.role = role] ELSE users[i]]

\* handleDeleteUser up to its await; `confirmed` is the answer to window.confirm.
\* The buttons of a row are rendered for every user but the one logged in.
handleDeleteUser(userId, confirmed) ==
  /\ view = "admin"
  /\ userId \in Ids(adm.users)
  /\ userId # user.id
  /\ IF ~confirmed
       THEN UNCHANGED <<adm, nreq>>
       ELSE /\ nreq < MaxAdminReqs
            /\ adm' = [adm EXCEPT !.net = @ \cup
                        {ViewRequest(nreq + 1, "deleteUser", adm.users, userId, "")}]
            /\ nreq' = nreq + 1
  /\ lastOp' = Prompt(confirmed)
  /\ UNCHANGED <<srv, notAdm>>

\* handleToggleRole up to its await, called with the role the row shows.
handleToggleRole(userId, currentRole, confirmed) ==
  /\ view = "admin"
  /\ \E i \in 1..Len(adm.users) :
       adm.users[i].id = userId /\ adm.users[i].role = currentRole
  /\ userId # user.id
  /\ IF ~confirmed
       THEN UNCHANGED <<adm, nreq>>
       ELSE /\ nreq < MaxAdminReqs
            /\ adm' = [adm EXCEPT !.net = @ \cup
                        {ViewRequest(nreq + 1, "role", adm.users, userId,
                                     newRole(currentRole))}]
            /\ nreq' = nreq + 1
  /\ lastOp' = Prompt(confirmed)
  /\ UNCHANGED <<srv, notAdm>>

\* The server handles a request of the admin panel.
ServerAdmin ==
  \E r \in adm.net :
    /\ r.st = "sent"
    /\ \/ /\ r.kind = "stats"
          /\ adm' = [adm EXCEPT !.net =
                       Answer(@, r, "ok", <<[total_users |-> Len(srv.users)]>>)]
          /\ UNCHANGED srv
       \/ /\ r.kind = "users"
          /\ adm' = [adm EXCEPT !.net = Answer(@, r, "ok", srv.users)]
          /\ UNCHANGED srv
       \/ /\ r.kind = "deleteUser"
          /\ r.id \in Ids(srv.users)
          /\ srv' = [srv EXCEPT !.users = removeById(@, r.id)]
          /\ adm' = [adm EXCEPT !.net = Answer(@, r, "ok", <<>>)]
       \/ /\ r.kind = "role"
          /\ r.id \in Ids(srv.users)
          /\ srv' = [srv EXCEPT !.users = setRole(@, r.id, r.category)]
          /\ adm' = [adm EXCEPT !.net = Answer(@, r, "ok", <<>>)]
       \/ /\ adm' = [adm EXCEPT !.net = Answer(@, r, "fail", <<>>)]
          /\ UNCHANGED srv
    /\ lastOp' = "server"
    /\ UNCHANGED <<nreq, notAdm>>

\* fetchStats after its await: setStats(response.data)
fetchStatsOk ==
  \E r \in adm.net :
    /\ r.kind = "stats" /\ r.st = "ok"
    /\ adm' = [adm EXCEPT !.stats = r.data, !.net = @ \ {r}]
    /\ lastOp' = "fetchStatsOk"
    /\ UNCHANGED <<srv, nreq, notAdm>>

\* fetchStats, the request failed: toast only.
fetchStatsFail ==
  \E r \in adm.net :
    /\ r.kind = "stats" /\ r.st = "fail"
    /\ adm' = [adm EXCEPT !.net = @ \ {r}]
    /\ lastOp' = "fetchStatsFail"
    /\ UNCHANGED <<srv, nreq, notAdm>>

\* fetchUsers after its await: setUsers(response.data), finally setLoading(false).
fetchUsersOk ==
  \E r \in adm.net :
    /\ r.kind = "users" /\ r.st = "ok"
    /\ adm' = [adm EXCEPT !.users = r.data, !.loading = FALSE, !.net = @ \ {r}]
    /\ lastOp' = "fetchUsersOk"
    /\ UNCHANGED <<srv, nreq, notAdm>>

\* fetchUsers, the request failed: toast, finally setLoading(false).
fetchUsersFail ==
  \E r \in adm.net :
    /\ r.kind = "users" /\ r.st = "fail"
    /\ adm' = [adm EXCEPT !.loading = FALSE, !.net = @ \ {r}]
    /\ lastOp' = "fetchUsersFail"
    /\ UNCHANGED <<srv, nreq, notAdm>>

\* Mutant of deleteUserOk: the statistics are not fetched again.
deleteUserOk_NoRefetch ==
  \E r \in adm.net :
    /\ r.kind = "deleteUser" /\ r.st = "ok"
    /\ adm' = [adm EXCEPT !.users = removeById(r.snap, r.id), !.net = @ \ {r}]
    /\ lastOp' = "deleteUserOk"
    /\ UNCHANGED <<srv, nreq, notAdm>>

\* handleDeleteUser after its await: setUsers(users.filter(u => u.id !== userId))
\* with the `users` of the render the button was clicked in, then fetchStats().
deleteUserOk ==
  \E r \in adm.net :
    /\ r.kind = "deleteUser" /\ r.st = "ok"
    /\ adm' = [adm EXCEPT !.users = removeById(r.snap, r.id),
                          !.net = (@ \ {r}) \cup {fetchStatsRequest(r.rid)}]
    /\ lastOp' = "deleteUserOk"
    /\ UNCHANGED <<srv, nreq, notAdm>>

\* handleDeleteUser, the request failed: toast only.
deleteUserFail ==
  \E r \in adm.net :
    /\ r.kind = "deleteUser" /\ r.st = "fail"
    /\ adm' = [adm EXCEPT !.net = @ \ {r}]
    /\ lastOp' = "deleteUserFail"
    /\ UNCHANGED <<srv, nreq, notAdm>>

\* handleToggleRole after its await: setUsers(users.map(...)) with the `users`
\* of the render the button was clicked in.
toggleRoleOk ==
  \E r \in adm.net :
    /\ r.kind = "role" /\ r.st = "ok"
    /\ adm' = [adm EXCEPT !.users = setRole(r.snap, r.id, r.category), !.net = @ \ {r}]
    /\ lastOp' = "toggleRoleOk"
    /\ UNCHANGED <<srv, nreq, notAdm>>

\* handleToggleRole, the request failed: toast only.
toggleRoleFail ==
  \E r \in adm.net :
    /\ r.kind = "role" /\ r.st = "fail"
    /\ adm' = [adm EXCEPT !.net = @ \ {r}]
    /\ lastOp' = "toggleRoleFail"
    /\ UNCHANGED <<srv, nreq, notAdm>>

(***************************************************************************)
(* Profile (src/unnamed/part_000), the own profile                         *)
(***************************************************************************)
\* The names that can be typed into the form.
Names == {<<"a">>, <<"b">>}

\* useState(null), useState(true), useState(false), useState({name: '', ...});
\* of the fields of the form the name stands for all.
ProfIdle ==
  [user |-> Null, loading |-> TRUE, editing |-> FALSE, formData |-> [name |-> <<>>],
   net |-> {}]

\* fetchUserProfile for the own profile: setUser(currentUser), setFormData from
\* currentUser, finally setLoading(false); no request is sent.
fetchUserProfile(p, currentUser) ==
  [p EXCEPT !.user = currentUser, !.formData = [name |-> currentUser.name],
            !.loading = FALSE]

\* useEffect(() => { fetchUserProfile(); }, [userId])
ProfMounted == fetchUserProfile(ProfIdle, user)

\* App renders the route of the current URL once it is not loading and has a user.
renderProfile ==
  /\ view = "profile"
  /\ ~loading
  /\ user # Null
  /\ prof = ProfIdle
  /\ prof' = ProfMounted
  /\ lastOp' = "navigate"
  /\ UNCHANGED <<sessVars, nreq, lastReq, view, feed, ann, evs, card, adm, srv>>

\* The edit button: setEditing(true)
startEdit ==
  /\ view = "profile"
  /\ prof.user # Null
  /\ ~prof.editing
  /\ prof' = [prof EXCEPT !.editing = TRUE]
  /\ lastOp' = "startEdit"
  /\ UNCHANGED <<sessVars, nreq, lastReq, view, feed, ann, evs, card, adm, srv>>

\* Typing into the form: setFormData({ ...formData, name: e.target.value })
setFormData(name) ==
  /\ view = "profile"
  /\ prof.editing
  /\ prof' = [prof EXCEPT !.formData = [@ EXCEPT !.name = name]]
  /\ lastOp' = "setFormData"
  /\ UNCHANGED <<sessVars, nreq, lastReq, view, feed, ann, evs, card, adm, srv>>

\* The cancel button: setEditing(false); fetchUserProfile()
cancelEdit ==
  /\ view = "profile"
  /\ prof.editing
  /\ prof' = fetchUserProfile([prof EXCEPT !.editing = FALSE], user)
  /\ lastOp' = "cancelEdit"
  /\ UNCHANGED <<sessVars, nreq, lastReq, view, feed, ann, evs, card, adm, srv>>

\* handleSaveProfile up to its await: api.put('/users/profile', formData).  The
\* bound leaves room for the request of the reload that follows a success.
handleSaveProfile ==
  /\ view = "profile"
  /\ prof.editing
  /\ nreq + 1 < MaxReqs
  /\ prof' = [prof EXCEPT !.net = @ \cup
                {ViewRequest(nreq + 1, "save", <<prof.formData>>, user.id, "")}]
  /\ nreq' = nreq + 1
  /\ lastOp' = "handleSaveProfile"
  /\ UNCHANGED <<sessVars, lastReq, view, feed, ann, evs, card, adm, srv>>

\* The server handles a save of the profile and returns the updated user.
ServerProfile ==
  \E r \in prof.net :
    /\ r.st = "sent"
    /\ \/ LET updated == [ServerUser(r.id) EXCEPT !.name = r.snap[1].name]
          IN /\ srv' = [srv EXCEPT !.users =
                          [i \in 1..Len(@) |-> IF @[i].id = r.id THEN updated ELSE @[i]]]
             /\ prof' = [prof EXCEPT !.net = Answer(@, r, "ok", <<updated>>)]
       \/ /\ prof' = [prof EXCEPT !.net = Answer(@, r, "fail", <<>>)]
          /\ UNCHANGED srv
    /\ lastOp' = "server"
    /\ UNCHANGED <<sessVars, nreq, lastReq, view, feed, ann, evs, card, adm>>

\* handleSaveProfile after its await: setUser(response.data), setEditing(false),
\* toast, window.location.reload().  The reload discards the state of every
\* component and the pending continuations; App starts anew on the same URL and
\* its startup effect runs.
saveProfileOk ==
  \E r \in prof.net :
    /\ r.kind = "save" /\ r.st = "ok"
    /\ prof' = ProfIdle
    /\ user' = Null
    /\ loginLoading' = FALSE
    /\ IF token # NoToken
         THEN /\ nreq < MaxReqs
              /\ net' = {Request("me", interceptor(token))}
              /\ nreq' = nreq + 1
              /\ loading' = TRUE
         ELSE /\ net' = {}
              /\ nreq' = nreq
              /\ loading' = FALSE
    /\ lastOp' = "saveProfileOk"
    /\ UNCHANGED <<token, validTokens, issued, lastReq, view, feed, ann, evs, card, adm, srv>>

\* Mutant of saveProfileFail: the form is closed as after a success.
saveProfileFail_LeavesEditMode ==
  \E r \in prof.net :
    /\ r.kind = "save" /\ r.st = "fail"
    /\ prof' = [prof EXCEPT !.editing = FALSE, !.net = @ \ {r}]
    /\ lastOp' = "saveProfileFail"
    /\ UNCHANGED <<sessVars, nreq, lastReq, view, feed, ann, evs, card, adm, srv>>

\* handleSaveProfile, the request failed: toast only.
saveProfileFail ==
  \E r \in prof.net :
    /\ r.kind = "save" /\ r.st = "fail"
    /\ prof' = [prof EXCEPT !.net = @ \ {r}]
    /\ lastOp' = "saveProfileFail"
    /\ UNCHANGED <<sessVars, nreq, lastReq, view, feed, ann, evs, card, adm, srv>>

(***************************************************************************)
(* Navigation                                                              *)
(***************************************************************************)
Views == {"feed", "announcements", "events", "post"}

\* The user turns to another component, which is mounted anew; the component left
\* is unmounted, so the continuations of its pending requests change nothing.
navigate(v) ==
  /\ view # "none"
  /\ v # view
  /\ view' = v
  /\ feed' = IF v = "feed" THEN FeedMounted ELSE FeedIdle
  /\ ann' = IF v = "announcements" THEN AnnMounted ELSE AnnIdle
  /\ evs' = IF v = "events" THEN EvsMounted ELSE EvsIdle
  /\ card' = IF v = "post" THEN CardMounted ELSE CardIdle
  /\ adm' = IF v = "admin" THEN AdmMounted ELSE AdmIdle
  /\ prof' = IF v = "profile" THEN ProfMounted ELSE ProfIdle
  /\ lastOp' = "navigate"
  /\ UNCHANGED <<srv, nreq, lastReq, sessVars>>

(***************************************************************************)
(* Specifications                                                          *)
(***************************************************************************)
\* The application before anybody has logged in.
InitSession ==
  /\ token = NoToken
  /\ user = Null
  /\ loading = FALSE
  /\ loginLoading = FALSE
  /\ validTokens = {}
  /\ issued = 0
  /\ net = {}

\* The application with `u` logged in.
LoggedIn(u) ==
  /\ token = <<u, 1>>
  /\ user = UserRow(InitialUsers, u)
  /\ loading = FALSE
  /\ loginLoading = FALSE
  /\ validTokens = {<<u, 1>>}
  /\ issued = 1
  /\ net = {}

\* What the server holds when the application is opened.
InitialServer ==
  [posts |-> InitialPosts, nextPostId |-> Len(InitialPosts) + 1,
   announcements |-> InitialAnnouncements,
   nextAnnouncementId |-> Len(InitialAnnouncements) + 1,
   events |-> InitialEvents, nextEventId |-> Len(InitialEvents) + 1,
   comments |-> InitialComments, nextCommentId |-> Len(InitialComments) + 1,
   likes |-> InitialLikes, attendances |-> <<>>, version |-> 0,
   users |-> InitialUsers]

InitServer == srv = InitialServer

\* The session manager alone: no view is modelled.
Init ==
  /\ InitSession
  /\ InitServer
  /\ view = "none"
  /\ feed = FeedIdle
  /\ ann = AnnIdle
  /\ evs = EvsIdle
  /\ card = CardIdle
  /\ adm = AdmIdle
  /\ prof = ProfIdle
  /\ nreq = 0
  /\ lastOp = "startup"
  /\ lastReq = NoReq

\* A user is logged in and the feed has just been opened.
InitViews ==
  /\ \E u \in Users : LoggedIn(u)
  /\ InitServer
  /\ view = "feed"
  /\ feed = FeedMounted
  /\ ann = AnnIdle
  /\ evs = EvsIdle
  /\ card = CardIdle
  /\ adm = AdmIdle
  /\ prof = ProfIdle
  /\ nreq = 0
  /\ lastOp = "navigate"
  /\ lastReq = NoReq

NextSession ==
  \/ Reload
  \/ MeOk
  \/ MeFail
  \/ \E isLogin \in BOOLEAN : handleSubmit(isLogin)
  \/ SubmitOk
  \/ SubmitFail
  \/ handleLogout
  \/ ApiCall
  \/ ApiDone
  \/ ServerExpire

SpecSession == Init /\ [][NextSession]_vars

\* The texts typed where the text itself is of no interest.
Texts == {<<"a">>}

FeedResponses ==
  \/ ServerPosts
  \/ fetchPostsOk
  \/ fetchPostsFail
  \/ createPostOk
  \/ createPostFail
  \/ deletePostOk
  \/ deletePostFail

NextFeed ==
  \/ \E cat \in Categories \cup {"all"} : setCategoryFilter(cat)
  \/ openNewPost
  \/ \E content \in Texts, category \in Categories : setNewPost(content, category)
  \/ cancelNewPost
  \/ handleCreatePost
  \/ \E postId \in Ids(feed.posts), confirmed \in BOOLEAN : handleDeletePost(postId, confirmed)
  \/ FeedResponses

\* The feed alone.
SpecFeed == InitViews /\ [][NextFeed]_vars

AnnResponses ==
  \/ ServerAnnouncements
  \/ fetchAnnouncementsOk
  \/ fetchAnnouncementsFail
  \/ createAnnouncementOk
  \/ createAnnouncementFail
  \/ deleteAnnouncementOk
  \/ deleteAnnouncementFail

NextAnn ==
  \/ \E show \in BOOLEAN : setShowNewAnnouncement(show)
  \/ \E title \in Texts, content \in Texts, category \in AnnouncementCategories :
       setNewAnnouncement(title, content, category)
  \/ handleCreateAnnouncement
  \/ \E id \in Ids(ann.announcements), confirmed \in BOOLEAN :
       handleDeleteAnnouncement(id, confirmed)
  \/ AnnResponses

\* The lists with a delete: the feed and the announcements.
NextLists ==
  \/ \E v \in {"feed", "announcements"} : navigate(v)
  \/ NextFeed
  \/ NextAnn

SpecLists == InitViews /\ [][NextLists]_vars

\* The four forms that create a record, with every text that can be typed.
NextForms ==
  \/ \E v \in Views : navigate(v)
  \/ openNewPost
  \/ \E content \in Strings, category \in Categories : setNewPost(content, category)
  \/ cancelNewPost
  \/ handleCreatePost
  \/ ServerPosts
  \/ fetchPostsOk
  \/ fetchPostsFail
  \/ createPostOk
  \/ createPostFail
  \/ \E show \in BOOLEAN : setShowNewAnnouncement(show)
  \/ \E title \in Strings, content \in Strings :
       setNewAnnouncement(title, content, "general")
  \/ handleCreateAnnouncement
  \/ ServerAnnouncements
  \/ fetchAnnouncementsOk
  \/ fetchAnnouncementsFail
  \/ createAnnouncementOk
  \/ createAnnouncementFail
  \/ \E show \in BOOLEAN : setShowNewEvent(show)
  \/ \E title \in Strings, start \in Dates, end \in Dates : setNewEvent(title, start, end)
  \/ handleCreateEvent
  \/ ServerEvents
  \/ fetchEventsOk
  \/ fetchEventsFail
  \/ createEventOk
  \/ createEventFail
  \/ fetchComments
  \/ \E text \in Strings : setNewComment(text)
  \/ handleComment
  \/ ServerComments
  \/ loadCommentsCountDone
  \/ fetchCommentsOk
  \/ fetchCommentsFail
  \/ commentOk
  \/ commentFail

SpecForms == InitViews /\ [][NextForms]_vars

\* The feed has just been opened and the server holds any list of events.
InitUpcoming ==
  /\ \E u \in Users : LoggedIn(u)
  /\ \E n \in 0..MaxEvents : \E dates \in [1..n -> EventStarts \X EventEnds] :
       srv = [InitialServer EXCEPT !.events = EventList(n, dates)]
  /\ view = "feed"
  /\ feed = FeedMounted
  /\ ann = AnnIdle
  /\ evs = EvsIdle
  /\ card = CardIdle
  /\ adm = AdmIdle
  /\ prof = ProfIdle
  /\ nreq = 0
  /\ lastOp = "navigate"
  /\ lastReq = NoReq

NextUpcoming ==
  \/ ServerUpcoming
  \/ fetchUpcomingEventsOk
  \/ fetchUpcomingEventsFail

\* A user is logged in and looks at one card of the feed; the post has
\* one comment or none.
InitCard ==
  /\ \E u \in Users : LoggedIn(u)
  /\ \E comments \in {<<>>, InitialComments} :
       srv = [InitialServer EXCEPT !.comments = comments]
  /\ view = "post"
  /\ feed = FeedIdle
  /\ ann = AnnIdle
  /\ evs = EvsIdle
  /\ card = CardMounted
  /\ adm = AdmIdle
  /\ prof = ProfIdle
  /\ nreq = 0
  /\ lastOp = "navigate"
  /\ lastReq = NoReq

NextCard ==
  \/ handleLike
  \/ likeOk
  \/ likeFail
  \/ fetchComments
  \/ \E text \in Texts : setNewComment(text)
  \/ handleComment
  \/ \E commentId \in Ids(card.comments), confirmed \in BOOLEAN :
       handleDeleteComment(commentId, confirmed)
  \/ ServerComments
  \/ loadCommentsCountDone
  \/ fetchCommentsOk
  \/ fetchCommentsFail
  \/ commentOk
  \/ commentFail
  \/ deleteCommentOk
  \/ deleteCommentFail

\* The events the server holds where the calendar is looked at.
TwoEvents == << [id |-> 1], [id |-> 2] >>

\* A user is logged in and has just opened the calendar of two events.
InitEvents ==
  /\ \E u \in Users : LoggedIn(u)
  /\ srv = [InitialServer EXCEPT !.events = TwoEvents, !.nextEventId = Len(TwoEvents) + 1]
  /\ view = "events"
  /\ feed = FeedIdle
  /\ ann = AnnIdle
  /\ evs = EvsMounted
  /\ card = CardIdle
  /\ adm = AdmIdle
  /\ prof = ProfIdle
  /\ nreq = 0
  /\ lastOp = "navigate"
  /\ lastReq = NoReq

NextEvents ==
  \/ \E i \in 1..Len(evs.events) : handleSelectEvent(evs.events[i])
  \/ \E status \in Statuses : handleAttendance(status)
  \/ \E confirmed \in BOOLEAN : handleDeleteEvent(confirmed)
  \/ ServerEvents
  \/ fetchEventsOk
  \/ fetchEventsFail
  \/ fetchAttendancesOk
  \/ fetchAttendancesFail
  \/ attendanceOk
  \/ attendanceFail
  \/ deleteEventOk
  \/ deleteEventFail

\* The calendar of events alone.
SpecEvents == InitEvents /\ [][NextEvents]_vars

\* One card of the feed alone.
SpecCard == InitCard /\ [][NextCard]_vars

\* The sidebar of the feed alone.
SpecUpcoming == InitUpcoming /\ [][NextUpcoming]_vars

\* An administrator is logged in and has just opened the admin panel.
InitAdmin ==
  /\ \E u \in Users : LoggedIn(u) /\ user.role = "admin"
  /\ InitServer
  /\ view = "admin"
  /\ feed = FeedIdle
  /\ ann = AnnIdle
  /\ evs = EvsIdle
  /\ card = CardIdle
  /\ adm = AdmMounted
  /\ prof = ProfIdle
  /\ nreq = 0
  /\ lastOp = "navigate"
  /\ lastReq = NoReq

NextAdmin ==
  \/ \E userId \in Ids(adm.users), confirmed \in BOOLEAN : handleDeleteUser(userId, confirmed)
  \/ \E userId \in Ids(adm.users), currentRole \in {"admin", "member"}, confirmed \in BOOLEAN :
       handleToggleRole(userId, currentRole, confirmed)
  \/ ServerAdmin
  \/ fetchStatsOk
  \/ fetchStatsFail
  \/ fetchUsersOk
  \/ fetchUsersFail
  \/ deleteUserOk
  \/ deleteUserFail
  \/ toggleRoleOk
  \/ toggleRoleFail

\* The admin panel alone.
SpecAdmin == InitAdmin /\ [][NextAdmin]_vars

\* A user is logged in and has just opened the own profile.
InitProfile ==
  /\ \E u \in Users : LoggedIn(u)
  /\ InitServer
  /\ view = "profile"
  /\ feed = FeedIdle
  /\ ann = AnnIdle
  /\ evs = EvsIdle
  /\ card = CardIdle
  /\ adm = AdmIdle
  /\ prof = ProfMounted
  /\ nreq = 0
  /\ lastOp = "navigate"
  /\ lastReq = NoReq

NextProfile ==
  \/ renderProfile
  \/ startEdit
  \/ \E name \in Names : setFormData(name)
  \/ cancelEdit
  \/ handleSaveProfile
  \/ ServerProfile
  \/ saveProfileOk
  \/ saveProfileFail
  \/ MeOk
  \/ MeFail

\* The own profile and the startup of App after the reload of a save.
SpecProfile == InitProfile /\ [][NextProfile]_vars

\* The routes of App.
AllViews == Views \cup {"admin", "profile"}

\* A user is logged in and has just opened one of the views from its URL.
InitAnyView ==
  /\ \E u \in Users : LoggedIn(u)
  /\ srv = [InitialServer EXCEPT !.events = TwoEvents, !.nextEventId = Len(TwoEvents) + 1]
  /\ \E v \in AllViews : (v = "admin" => user.role = "admin") /\ view = v
  /\ feed = IF view = "feed" THEN FeedMounted ELSE FeedIdle
  /\ ann = IF view = "announcements" THEN AnnMounted ELSE AnnIdle
  /\ evs = IF view = "events" THEN EvsMounted ELSE EvsIdle
  /\ card = IF view = "post" THEN CardMounted ELSE CardIdle
  /\ adm = IF view = "admin" THEN AdmMounted ELSE AdmIdle
  /\ prof = IF view = "profile" THEN ProfMounted ELSE ProfIdle
  /\ nreq = 0
  /\ lastOp = "navigate"
  /\ lastReq = NoReq

NextAnyView ==
  \/ NextFeed
  \/ NextAnn
  \/ NextEvents
  \/ \E show \in BOOLEAN : setShowNewEvent(show)
  \/ \E title \in Texts, date \in Dates : setNewEvent(title, date, date)
  \/ handleCreateEvent
  \/ createEventOk
  \/ createEventFail
  \/ NextCard
  \/ NextAdmin
  \/ NextProfile

\* Every view on its own, with all its handlers.
SpecAnyView == InitAnyView /\ [][NextAnyView]_vars

(***************************************************************************)
(* Claims about the session manager                                        *)
(***************************************************************************)

\* C1: a startup with a stored token issues exactly one GET /auth/me and one
\* without a token issues none and is unauthenticated; a successful
\* resolution sets the session user to the returned user and keeps the
\* token; a failed one removes the token and leaves the user null.
C1_StartupResolution ==
  [][ /\ (lastOp' = "startup" /\ token # NoToken) =>
           /\ Cardinality({r \in net' : r.kind = "me"}) = 1
           /\ nreq' = nreq + 1
           /\ token' = token
      /\ (lastOp' = "startup" /\ token = NoToken) =>
           /\ nreq' = nreq
           /\ net' = {}
           /\ user' = Null
           /\ ~loading'
      /\ lastOp' = "me_ok" =>
           /\ user' = lastReq'.data
           /\ user'.id = TokenUser(token)
           /\ token # NoToken
           /\ token' = token
      /\ lastOp' = "me_fail" =>
           /\ token' = NoToken
           /\ user' = Null
    ]_vars

C1_Witness == lastOp = "me_fail" /\ lastReq.auth \in validTokens /\ token = NoToken

\* C2: the continuation of a login or registration submit stores the token
\* and populates the user exactly when the POST succeeded; while it is
\* pending and when it fails no token is stored and the user stays null.
C2_SubmitStoresOnSuccessOnly ==
  [][ /\ lastOp' = "submit_ok" =>
           /\ token' = lastReq'.data.access_token
           /\ token' # NoToken
           /\ user' = lastReq'.data.user
           /\ user' # Null
      /\ lastOp' \in {"submit", "submit_fail"} =>
           /\ token' = NoToken
           /\ user' = Null
    ]_vars

C2_Witness == lastOp = "submit_ok" /\ lastReq.kind = "register" /\ token \in Tokens

\* C3: a logout removes the stored token and nulls the session user, sends
\* no request and leaves the requests in flight alone.
C3_LogoutClears ==
  [][ lastOp' = "logout" =>
        /\ token' = NoToken
        /\ user' = Null
        /\ nreq' = nreq
        /\ net' = net
    ]_vars

C3_Witness == lastOp = "logout" /\ net # {} /\ token = NoToken

\* C4: every request carries as Authorization header the token that was
\* stored when it was sent, and no header when none was stored.
C4_BearerOfStoredToken ==
  \A r \in net :
    r.auth = (IF r.sentWith \in Tokens THEN r.sentWith ELSE NoAuth)

C4_Witness ==
  /\ \E r \in net : r.kind = "api" /\ r.auth \in Tokens
  /\ \E r \in net : r.kind = "login" /\ r.auth = NoAuth

\* C5: when the startup resolution after a reload completes while the
\* server still accepts the stored token, the session is that of the
\* token's user, the token is still stored and no login form is shown.
C5_ReloadKeepsSession ==
  (lastOp \in {"me_ok", "me_fail"} /\ lastReq.auth \in validTokens) =>
    /\ user = ServerUser(TokenUser(lastReq.auth))
    /\ token = lastReq.auth
    /\ ~LoginShown

(***************************************************************************)
(* Claims about the feed                                                   *)
(***************************************************************************)

\* The continuation of request r runs in this step.
Delivered(r, kind, st) == r \in feed.net /\ r \notin feed'.net /\ r.kind = kind /\ r.st = st

\* C6: no post id occurs twice in the local post list.
C6_NoDuplicatePosts ==
  \A i, j \in 1..Len(feed.posts) : feed.posts[i].id = feed.posts[j].id => i = j

C6_Witness == lastOp = "createPostOk" /\ Len(feed.posts) = 3 /\ feed.net # {}

\* C7: applying the response of a successful delete removes the entry with
\* the deleted id from the list as it is at that moment and keeps every
\* other entry, in order.
C7_DeleteRemovesOnlyMatching ==
  [][ \A r \in feed.net :
        Delivered(r, "delete", "ok") => feed'.posts = removeById(feed.posts, r.id)
    ]_vars

\* C8: applying the response of a successful create makes the list the
\* returned post followed by the list as it is at that moment.
C8_CreatePrependsToCurrent ==
  [][ \A r \in feed.net :
        Delivered(r, "create", "ok") => feed'.posts = prepend(r.data[1], feed.posts)
    ]_vars

(***************************************************************************)
(* Claims about the forms and the deletes                                  *)
(***************************************************************************)

\* C9: a submit of a create form whose required text is blank (a post with
\* blank content, an announcement with blank title or content, an event
\* with blank title or without start or end date, a comment with blank
\* text) sends no request and changes nothing of the view or the server.
C9_BlankFormsSendNothing ==
  [][ /\ (lastOp' = "handleCreatePost" /\ IsBlank(feed.newPost.content)) =>
           feed' = feed /\ nreq' = nreq /\ srv' = srv
      /\ (/\ lastOp' = "handleCreateAnnouncement"
          /\ IsBlank(ann.newAnnouncement.title) \/ IsBlank(ann.newAnnouncement.content)) =>
           ann' = ann /\ nreq' = nreq /\ srv' = srv
      /\ (/\ lastOp' = "handleCreateEvent"
          /\ \/ IsBlank(evs.newEvent.title)
             \/ evs.newEvent.start_date = <<>>
             \/ evs.newEvent.end_date = <<>>) =>
           evs' = evs /\ nreq' = nreq /\ srv' = srv
      /\ (lastOp' = "handleComment" /\ IsBlank(card.newComment)) =>
           card' = card /\ nreq' = nreq /\ srv' = srv
    ]_vars

C9_Witness ==
  /\ lastOp = "handleCreateAnnouncement"
  /\ ann.newAnnouncement.title = <<"a">>
  /\ ann.newAnnouncement.content = <<" ">>
  /\ ann.net = {}

\* A DELETE request is sent in this step.
SendsDelete(old, new) == \E r \in new \ old : r.kind = "delete" /\ r.st = "sent"

\* C10: a DELETE of a post or an announcement is sent only in a step in which
\* the prompt was accepted, and that step leaves the local list as it is;
\* declining the prompt changes nothing and sends nothing; a failed DELETE
\* leaves the local list as it is.
C10_DeleteNeedsConfirmAndSuccess ==
  [][ /\ SendsDelete(feed.net, feed'.net) =>
           lastOp' = "confirm:accepted" /\ feed'.posts = feed.posts
      /\ SendsDelete(ann.net, ann'.net) =>
           lastOp' = "confirm:accepted" /\ ann'.announcements = ann.announcements
      /\ lastOp' = "confirm:declined" =>
           feed' = feed /\ ann' = ann /\ nreq' = nreq /\ srv' = srv
      /\ lastOp' = "deletePostFail" => feed'.posts = feed.posts
      /\ lastOp' = "deleteAnnouncementFail" => ann'.announcements = ann.announcements
    ]_vars

C10_Witness ==
  /\ lastOp = "deleteAnnouncementOk"
  /\ ann.announcements = <<>>
  /\ srv.announcements = <<>>

(***************************************************************************)
(* Claims about races in the feed                                          *)
(***************************************************************************)

\* C11: when the response of a post delete or of a post-list fetch has just
\* been applied and no request of the feed is in flight any more, the local
\* list holds no entry for a post the server has deleted.
C11_DeleteRefetchRaceSafe ==
  (lastOp \in {"fetchPostsOk", "deletePostOk"} /\ feed.net = {}) =>
    Ids(feed.posts) \subseteq Ids(srv.posts)

(***************************************************************************)
(* Claims about the sidebar of upcoming events                             *)
(***************************************************************************)

\* C12: after the response of GET /events has been applied the sidebar holds
\* only events of the response that end after now, each once, in ascending
\* order of their start, as many of them as there are up to 5, and no
\* upcoming event left out starts before one that is shown.
C12_UpcomingEvents ==
  lastOp = "fetchUpcomingEventsOk" =>
    LET data == srv.events
        shown == feed.events
        Upcoming == {i \in 1..Len(data) : data[i].end_date > Now}
    IN /\ \A k \in 1..Len(shown) : \E i \in Upcoming : shown[k] = data[i]
       /\ \A j, k \in 1..Len(shown) : shown[j].id = shown[k].id => j = k
       /\ Len(shown) = IF Cardinality(Upcoming) < 5 THEN Cardinality(Upcoming) ELSE 5
       /\ \A j, k \in 1..Len(shown) : j < k => shown[j].start_date <= shown[k].start_date
       /\ \A i \in Upcoming : data[i].id \notin Ids(shown) =>
            \A k \in 1..Len(shown) : shown[k].start_date <= data[i].start_date

\* Six events, the first already over and the other five not, out of order.
C12_Witness ==
  /\ lastOp = "fetchUpcomingEventsOk"
  /\ Len(srv.events) = 6
  /\ srv.events[1].end_date = 0
  /\ \A i \in 2..6 : srv.events[i].end_date = 2
  /\ srv.events[2].start_date = 2
  /\ srv.events[3].start_date = 1
  /\ Ids(feed.events) = 2..6

(***************************************************************************)
(* Claims about the post card                                              *)
(***************************************************************************)

\* C13: on a post that starts without likes and that only this user likes,
\* whenever every like click has been answered the liked flag is the parity
\* of the like count shown (odd: liked, even: not liked), so that two likes
\* bring the flag back to what it was.
C13_LikedMatchesParity ==
  (\A r \in card.net : r.kind # "like") =>
    (card.liked <=> card.likesCount % 2 = 1)

\* The continuation of request r of the card runs in this step.
Applied(r, kind, st) == r \in card.net /\ r \notin card'.net /\ r.kind = kind /\ r.st = st

C15_ExpandIdempotent ==
  [][ (lastOp' = "fetchComments" /\ (card.showComments \/ card.comments # <<>>)) =>
        /\ card'.net = card.net
        /\ nreq' = nreq
        /\ card' = [card EXCEPT !.showComments = ~card.showComments]
    ]_vars

\* C16: applying the response of a successful comment add puts the returned
\* comment at the end of the thread and raises the count shown by 1; applying
\* the response of a successful comment delete removes the comment with that
\* id and lowers the count shown by 1; the other comments stay as they are.
C16_CommentAddDelete ==
  [][ \A r \in card.net :
        /\ Applied(r, "create", "ok") =>
             /\ card'.comments = card.comments \o <<r.data[1]>>
             /\ card'.commentsCount = card.commentsCount + 1
        /\ Applied(r, "delete", "ok") =>
             /\ card'.comments = removeById(card.comments, r.id)
             /\ card'.commentsCount = card.commentsCount - 1
    ]_vars

\* A request of this kind is sent by the card in this step.
CardSends(kind) == \E r \in card'.net \ card.net : r.kind = kind /\ r.st = "sent"

\* C17 as stated: no POST of a comment and no DELETE of a comment is sent
\* except in a step in which the user has accepted a confirmation prompt.
C17_AddAndDeleteNeedConfirm ==
  [][ (CardSends("create") \/ CardSends("delete")) => lastOp' = "confirm:accepted" ]_vars

\* C17 as amended: a DELETE of a comment is sent only in a step in which the
\* prompt was accepted, and declining the prompt sends nothing and changes
\* nothing; a POST of a comment is sent by the submit of the form without
\* any prompt, and only when the text is not blank.
C17_DeleteNeedsConfirmAddNeedsText ==
  [][ /\ CardSends("delete") => lastOp' = "confirm:accepted"
      /\ lastOp' = "confirm:declined" => card' = card /\ nreq' = nreq /\ srv' = srv
      /\ CardSends("create") => lastOp' = "handleComment" /\ ~IsBlank(card.newComment)
    ]_vars

\* A comment has been posted and the delete of another has just been
\* confirmed and sent.
C17_Witness ==
  /\ lastOp = "confirm:accepted"
  /\ \E r \in card.net : r.kind = "delete" /\ r.st = "sent"
  /\ \E r \in card.net : r.kind = "create"

(***************************************************************************)
(* Claims about the calendar of events                                     *)
(***************************************************************************)

\* The continuation of request r of Events runs in this step.
Handled(r, kind, st) == r \in evs.net /\ r \notin evs'.net /\ r.kind = kind /\ r.st = st

\* C18: the step that applies the response of a successful attendance write
\* sends a fetch of the roster of the event selected at that moment, and the
\* local roster changes only in a step that applies the response of a roster
\* fetch, to the roster of that response.
C18_RosterRefetch ==
  [][ /\ \A r \in evs.net :
           Handled(r, "attend", "ok") =>
             /\ evs.selectedEvent # NoEvent
             /\ \E q \in evs'.net \ evs.net :
                  q.kind = "roster" /\ q.st = "sent" /\ q.id = evs.selectedEvent.id
      /\ evs'.attendances # evs.attendances =>
           \E r \in evs.net : Handled(r, "roster", "ok") /\ evs'.attendances = r.data
    ]_vars

\* The entries of the current user in a roster.
Mine(roster) == SelectSeq(roster, LAMBDA a : a.user_id = user.id)

C20_DeleteClearsOwnSelection ==
  [][ \A r \in evs.net :
        Handled(r, "delete", "ok") =>
          /\ r.id \notin Ids(evs'.events)
          /\ evs'.selectedEvent =
               IF evs.selectedEvent.id = r.id THEN NoEvent ELSE evs.selectedEvent
    ]_vars

(***************************************************************************)
(* Claims about the admin panel                                            *)
(***************************************************************************)

\* The continuation of request r of the admin panel runs in this step.
Settled(r, kind, st) == r \in adm.net /\ r \notin adm'.net /\ r.kind = kind /\ r.st = st

\* C21: the step that applies the response of a successful role toggle sets
\* the role of the toggled row of the local roster to the new role, leaves
\* every other row as it was, adds and removes no row, and sends no request.
C21_ToggleChangesOneRow ==
  [][ \A r \in adm.net :
        Settled(r, "role", "ok") =>
          /\ Len(adm'.users) = Len(adm.users)
          /\ \A i \in 1..Len(adm.users) :
               adm'.users[i] = IF adm.users[i].id = r.id
                                 THEN [adm.users[i] EXCEPT !.role = r.category]
                                 ELSE adm.users[i]
          /\ adm'.net = adm.net \ {r}
    ]_vars

\* C22: the step that applies the response of a successful user delete
\* leaves the local roster without that user, sends a fetch of the statistics
\* and leaves the statistics shown as they are; the step that applies a
\* failed delete, and a declined prompt, leave the roster and the statistics
\* as they are and send nothing.
C22_DeleteUserRefetchesStats ==
  [][ /\ \A r \in adm.net :
           /\ Settled(r, "deleteUser", "ok") =>
                /\ r.id \notin Ids(adm'.users)
                /\ \E q \in adm'.net \ adm.net : q.kind = "stats" /\ q.st = "sent"
                /\ adm'.stats = adm.stats
           /\ Settled(r, "deleteUser", "fail") =>
                /\ adm'.users = adm.users
                /\ adm'.stats = adm.stats
                /\ adm'.net = adm.net \ {r}
      /\ (view = "admin" /\ lastOp' = "confirm:declined") => adm' = adm
    ]_vars

\* The response of a successful delete has just been applied: the row is gone
\* and the fetch of the statistics is in flight.
C22_Witness ==
  /\ lastOp = "deleteUserOk"
  /\ Len(adm.users) = 2
  /\ \E q \in adm.net : q.kind = "stats" /\ q.rid > 0 /\ q.st = "sent"

(***************************************************************************)
(* Claims about all the views                                              *)
(***************************************************************************)

\* The continuations of the mutating requests that failed.
MutationFailures ==
  {"createPostFail", "deletePostFail", "likeFail", "commentFail", "deleteCommentFail",
   "createAnnouncementFail", "deleteAnnouncementFail", "createEventFail",
   "deleteEventFail", "attendanceFail", "toggleRoleFail", "deleteUserFail",
   "saveProfileFail"}

\* C23: the step that applies the response of a failed mutating request
\* changes nothing of the state of any view (lists, counts, flags, roster,
\* selection, records, forms) but the set of requests in flight, which loses
\* that request and gains none; the session and the server stay as they are.
C23_FailureChangesNothing ==
  [][ lastOp' \in MutationFailures =>
        /\ feed' = [feed EXCEPT !.net = feed'.net] /\ feed'.net \subseteq feed.net
        /\ ann' = [ann EXCEPT !.net = ann'.net] /\ ann'.net \subseteq ann.net
        /\ evs' = [evs EXCEPT !.net = evs'.net] /\ evs'.net \subseteq evs.net
        /\ card' = [card EXCEPT !.net = card'.net] /\ card'.net \subseteq card.net
        /\ adm' = [adm EXCEPT !.net = adm'.net] /\ adm'.net \subseteq adm.net
        /\ prof' = [prof EXCEPT !.net = prof'.net] /\ prof'.net \subseteq prof.net
        /\ UNCHANGED <<sessVars, srv, view>>
    ]_vars

\* A save of the profile has just failed while the draft differs from the
\* profile shown: the form is still open with the draft.
C23_Witness ==
  /\ lastOp = "saveProfileFail"
  /\ prof.editing
  /\ prof.formData.name # prof.user.name

(***************************************************************************)
(* Claims about the profile                                                *)
(***************************************************************************)

\* The continuation of request r of the profile runs in this step (a reload
\* drops the other requests without running theirs).
Saved(r, st) ==
  /\ r \in prof.net /\ r \notin prof'.net /\ r.kind = "save" /\ r.st = st
  /\ lastOp' = IF st = "ok" THEN "saveProfileOk" ELSE "saveProfileFail"

\* C24: the step that applies the response of a successful save reloads the
\* page (App is loading again and GET /auth/me is in flight); the startup
\* resolution that follows, the server still accepting the token, ends with
\* the session user equal to the server's record of the user; the step that
\* applies a failed save reloads nothing and keeps edit mode and the draft.
C24_SaveReloadsSession ==
  [][ /\ \A r \in prof.net :
           /\ Saved(r, "ok") => loading' /\ \E q \in net' : q.kind = "me"
           /\ Saved(r, "fail") =>
                /\ prof'.editing = prof.editing
                /\ prof'.formData = prof.formData
                /\ UNCHANGED <<loading, net, user>>
      /\ \A q \in net :
           (view = "profile" /\ q.kind = "me" /\ q \notin net' /\ q.auth \in validTokens) =>
             user' = ServerUser(TokenUser(q.auth))
    ]_vars

(***************************************************************************)
(* Claims about states with no request in flight                           *)
(***************************************************************************)

\* C25: whenever an event is selected and neither a roster fetch nor an
\* attendance write is in flight, every entry of the local roster is an
\* attendance of the selected event.
C25_RosterOfSelectedEvent ==
  (/\ view = "events"
   /\ evs.selectedEvent # NoEvent
   /\ \A r \in evs.net : r.kind \notin {"roster", "attend"}) =>
    \A i \in 1..Len(evs.attendances) :
      evs.attendances[i].event_id = evs.selectedEvent.id

\* C26: when the response of a successful create or delete of a post has just
\* been applied and no request of the feed is in flight, the local list holds
\* every post created from this feed that the server still holds, and no post
\* the server has deleted.
C26_ConcurrentMutationsBothApplied ==
  (/\ view = "feed"
   /\ lastOp \in {"createPostOk", "deletePostOk"}
   /\ feed.net = {}) =>
    /\ \A i \in 1..Len(srv.posts) :
         srv.posts[i].id > Len(InitialPosts) => srv.posts[i].id \in Ids(feed.posts)
    /\ Ids(feed.posts) \subseteq Ids(srv.posts)

\* C27: whenever the thread of the card is loaded and shown and no request of
\* the card is in flight, the comment count shown equals the number of
\* comments of the local thread.
C27_CountMatchesThread ==
  (/\ view = "post"
   /\ card.showComments
   /\ ~card.loadingComments
   /\ card.net = {}) =>
    card.commentsCount = Len(card.comments)

\* C28: whenever a category filter other than 'all' is active in the feed
\* and no request of the feed is in flight, every post of the local list
\* has the category of the filter.
C28_ListMatchesFilter ==
  (/\ view = "feed"
   /\ feed.categoryFilter # "all"
   /\ feed.net = {}) =>
    \A i \in 1..Len(feed.posts) : feed.posts[i].category = feed.categoryFilter

(***************************************************************************)
(* Claims about the comment button                                         *)
(***************************************************************************)

\* C29: a click on the comment button while the thread is shown hides the
\* thread, and a click while a loaded thread is hidden shows it.
C29_ButtonTogglesThread ==
  [][ lastOp' = "fetchComments" =>
        /\ card.showComments => ~card'.showComments
        /\ (~card.showComments /\ card.comments # <<>>) => card'.showComments
    ]_vars

(***************************************************************************)
(* Claims about the session as a whole                                     *)
(***************************************************************************)

\* C30: in every state in which App is not loading, the session user is
\* non-null exactly when a token is stored.
C30_UserIffToken == ~loading => (user # Null <=> token # NoToken)

\* The startup resolution after a reload has just succeeded: App is not
\* loading, the user is set and the token is stored.
C30_Witness == ~loading /\ lastOp = "me_ok" /\ user # Null /\ token # NoToken

====
